---- MODULE Spec2Model ----
(***************************************************************************)
(* ClawCloud: the ClawCloudVMs ledger contract (contracts/ClawCloudVMs.sol)*)
(* and the backend event listener that provisions cloud instances for      *)
(* purchased tokens.                                                       *)
(*                                                                         *)
(* Every ledger transaction is one atomic action.  A transaction that      *)
(* reverts leaves the ledger unchanged; the model records its revert       *)
(* reason in `last` and the events of the transaction in `emitted`.        *)
(***************************************************************************)
EXTENDS Integers, Sequences, FiniteSets, TLC

----------------------------------------------------------------------------
(* Program constants                                                       *)

GRACE_PERIOD == 604800

SECONDS_PER_MONTH == 2629800

TIER_MICRO_PRICE == 5000000

TIER_SMALL_PRICE == 10000000

TIER_MEDIUM_PRICE == 25000000

TIER_LARGE_PRICE == 50000000

TIER_XLARGE_PRICE == 100000000

\* enum Tier { MICRO, SMALL, MEDIUM, LARGE, XLARGE }
MICRO == 0

SMALL == 1

MEDIUM == 2

LARGE == 3

XLARGE == 4

\* enum Status { PROVISIONING, ACTIVE, SUSPENDED, TERMINATED }
PROVISIONING == 0

ACTIVE == 1

SUSPENDED == 2

TERMINATED == 3

----------------------------------------------------------------------------
(* Bounds of the model                                                     *)

\* number of token ids that can be minted
MaxTokens == 2

\* number of deliveries of VMPurchased events the listener handles
MaxHandlers == 2

\* number of entitlements Spec follows, one after the other
MaxLives == 1

\* block.timestamp of the first block of the model
GenesisTime == 1000

\* USDC (6 decimals) of Alice in the initial state of Spec: the allowance given to
\* the contract is what limits it
SmallFunds == 10000000

\* USDC balance of Bot in the initial state: the balance is what limits it
BotFunds == 5000000

\* USDC of Alice in the initial state of SpecPrice: enough for any one purchase
LargeFunds == 1300000000

----------------------------------------------------------------------------
(* Addresses                                                               *)

\* address(0)
NoOwner == "0x0"

\* externally owned account of a buyer
Alice == "alice"

\* a buyer that is a contract: it implements onERC721Received
Bot == "bot"

\* the backend wallet, constructor argument _provisioner
Provisioner == "prov"

\* constructor argument _treasury
Treasury == "treasury"

Callers == {Alice, Bot, Provisioner}

Contracts == {Bot}

Holders == Callers \cup {Treasury}

TokenIds == 0 .. (MaxTokens - 1)

\* token ids a caller may name
IdArgs == TokenIds

\* arguments of setVMProvisioned: <<instanceId, ipAddress>>
ProvisionArgs ==
    {<<"", "10.0.0.1">>, <<"i-a", "">>, <<"i-a", "10.0.0.1">>, <<"i-b", "10.0.0.2">>}

\* arguments of updateIPAddress
NewIpArgs == {"", "10.0.0.3"}

----------------------------------------------------------------------------
VARIABLES
    now,              \* block.timestamp
    paused,           \* Pausable._paused
    tokenIdCounter,   \* _tokenIdCounter
    owners,           \* ERC721._owners
    vms,              \* mapping(uint256 => VM) vms
    everProvisioned,  \* mapping(uint256 => bool) everProvisioned
    balance,          \* paymentToken balances
    allowance,        \* paymentToken allowances granted to the contract
    last,             \* the last transaction: function, sender, token, revert reason
    emitted,          \* the events the last transaction emitted
    provider,         \* process.env.PREFERRED_PROVIDER of the backend
    handlers,         \* the runs of handleVMPurchased, each at its await
    cloud,            \* the instances that exist at the cloud provider
    vmStatus,         \* the status last passed to updateVMStatus, per token
    listening,        \* the listener process runs and is subscribed
    heard,            \* the logs its subscriptions have received
    destroyReturn     \* the last call of destroyVM and what it returned

ledgerVars == <<paused, tokenIdCounter, owners, vms, everProvisioned, balance, allowance>>

\* the environment and the memory of the listener process
processVars == <<provider, listening, heard, destroyReturn>>

backendVars == <<provider, handlers, cloud, vmStatus, listening, heard, destroyReturn>>

vars == <<now, paused, tokenIdCounter, owners, vms, everProvisioned, balance,
          allowance, last, emitted, provider, handlers, cloud, vmStatus,
          listening, heard, destroyReturn>>

\* the value of a mapping slot that was never written, or was deleted
EmptyVM ==
    [tier |-> MICRO, purchasedAt |-> 0, expiresAt |-> 0, durationMonths |-> 0,
     instanceId |-> "", ipAddress |-> "", status |-> PROVISIONING,
     provisionedAt |-> 0, lastRenewal |-> 0]

_exists(tokenId) ==
    tokenId \in TokenIds /\ owners[tokenId] # NoOwner

ownerOf(tokenId) == owners[tokenId]

_getTierPrice(tier) ==
    CASE tier = MICRO  -> TIER_MICRO_PRICE
      [] tier = SMALL  -> TIER_SMALL_PRICE
      [] tier = MEDIUM -> TIER_MEDIUM_PRICE
      [] tier = LARGE  -> TIER_LARGE_PRICE
      [] tier = XLARGE -> TIER_XLARGE_PRICE

\* a transfer that checks the balance and not the allowance
safeTransferFrom_noAllowance(from, amount) ==
    balance[from] >= amount

\* paymentToken.safeTransferFrom(from, treasury, amount) goes through
safeTransferFrom(from, amount) ==
    balance[from] >= amount /\ allowance[from] >= amount

\* a transfer that credits the treasury and leaves the payer's balance
Pay_creditOnly(from, amount) ==
    /\ balance' = [balance EXCEPT ![Treasury] = @ + amount]
    /\ allowance' = [allowance EXCEPT ![from] = @ - amount]

Pay(from, amount) ==
    /\ balance' = [balance EXCEPT ![from] = @ - amount, ![Treasury] = @ + amount]
    /\ allowance' = [allowance EXCEPT ![from] = @ - amount]

\* a call of a ledger function, as recorded in `last`
Call(fn, sender, tokenId, tier, months, instanceId, ipAddress) ==
    [fn |-> fn, sender |-> sender, tokenId |-> tokenId, tier |-> tier,
     months |-> months, instanceId |-> instanceId, ipAddress |-> ipAddress,
     err |-> ""]

NoCall == Call("none", NoOwner, 0, 0, 0, "", "")

\* the transaction reverts: nothing but the record of the call changes
Reverted(call, reason) ==
    /\ last' = [call EXCEPT !.err = reason]
    /\ emitted' = <<>>
    /\ UNCHANGED <<now, ledgerVars>>

\* the transaction is committed with its events
Committed(call, events) ==
    /\ last' = call
    /\ emitted' = events
    /\ UNCHANGED now

----------------------------------------------------------------------------
(* purchaseVM                                                              *)

\* the monthly price charged once, whatever the duration
purchaseCost_oneMonth(tier, durationMonths) == _getTierPrice(tier)

purchaseCost(tier, durationMonths) == _getTierPrice(tier) * durationMonths

\* purchaseVM without the check of the duration
purchaseRevert_anyDuration(sender, tier, durationMonths) ==
    IF paused THEN "Pausable: paused"
    ELSE IF ~(tier <= XLARGE) THEN "Invalid tier"
    ELSE IF ~safeTransferFrom(sender, purchaseCost(tier, durationMonths))
        THEN "ERC20: transfer failed"
    ELSE ""

purchaseRevert(sender, tier, durationMonths) ==
    IF paused THEN "Pausable: paused"
    ELSE IF ~(tier <= XLARGE) THEN "Invalid tier"
    ELSE IF ~(durationMonths > 0 /\ durationMonths <= 12)
        THEN "Duration must be 1-12 months"
    ELSE IF ~safeTransferFrom(sender, purchaseCost(tier, durationMonths))
        THEN "ERC20: transfer failed"
    ELSE ""

purchaseExpiresAt(durationMonths) == now + (durationMonths * SECONDS_PER_MONTH)

newVM(tier, durationMonths) ==
    [tier |-> tier, purchasedAt |-> now,
     expiresAt |-> purchaseExpiresAt(durationMonths),
     durationMonths |-> durationMonths, instanceId |-> "", ipAddress |-> "",
     status |-> PROVISIONING, provisionedAt |-> 0, lastRenewal |-> now]

\* What the buyer's onERC721Received does when _safeMint calls it.  Only a
\* contract is called.  purchaseVM holds the reentrancy lock, so the callback
\* can enter the functions that are not nonReentrant: it can terminate the
\* token it was just given, or transfer it away.
Callbacks(sender) ==
    IF sender \in Contracts THEN {"none", "terminate", "transfer"} ELSE {"none"}

\* owner of the new token when _safeMint returns
mintedOwner(sender, cb) ==
    CASE cb = "none"      -> sender
      [] cb = "terminate" -> NoOwner
      [] cb = "transfer"  -> Alice

VMPurchased(tokenId, buyer, tier, durationMonths, expiresAt, cost) ==
    [event |-> "VMPurchased", tokenId |-> tokenId, buyer |-> buyer, tier |-> tier,
     durationMonths |-> durationMonths, expiresAt |-> expiresAt, cost |-> cost]

VMTerminated(tokenId, by) ==
    [event |-> "VMTerminated", tokenId |-> tokenId, terminatedBy |-> by,
     timestamp |-> now]

\* a counter that the mint leaves where it was
nextTokenIdCounter_stuck(counter) == counter

\* uint256 tokenId = _tokenIdCounter++: the counter after the statement
nextTokenIdCounter(counter) == counter + 1

purchaseVM(sender, tier, durationMonths, cb) ==
    LET call == Call("purchaseVM", sender, tokenIdCounter, tier, durationMonths, "", "")
        reason == purchaseRevert(sender, tier, durationMonths)
        tokenId == tokenIdCounter
        totalCost == purchaseCost(tier, durationMonths)
    IN  /\ tokenIdCounter < MaxTokens
        /\ cb \in Callbacks(sender)
        /\ IF reason # ""
           THEN Reverted(call, reason)
           ELSE /\ Pay(sender, totalCost)
                /\ tokenIdCounter' = nextTokenIdCounter(tokenIdCounter)
                /\ owners' = [owners EXCEPT ![tokenId] = mintedOwner(sender, cb)]
                /\ vms' = [vms EXCEPT ![tokenId] = newVM(tier, durationMonths)]
                /\ UNCHANGED <<paused, everProvisioned>>
                /\ Committed(call,
                      (IF cb = "terminate"
                       THEN <<VMTerminated(tokenId, sender)>> ELSE <<>>)
                      \o <<VMPurchased(tokenId, sender, tier, durationMonths,
                                       purchaseExpiresAt(durationMonths), totalCost)>>)

----------------------------------------------------------------------------
(* setVMProvisioned                                                        *)

VMProvisioned(tokenId, instanceId, ipAddress) ==
    [event |-> "VMProvisioned", tokenId |-> tokenId, instanceId |-> instanceId,
     ipAddress |-> ipAddress, timestamp |-> now]

\* a status check that only refuses a terminated VM
stillProvisioning_notTerminated(vm) == vm.status # TERMINATED

\* require(vms[tokenId].status == Status.PROVISIONING)
stillProvisioning(vm) == vm.status = PROVISIONING

\* setVMProvisioned without the checks of the two strings
setVMProvisionedRevert_anyStrings(sender, tokenId, instanceId, ipAddress) ==
    IF sender # Provisioner THEN "Only provisioner"
    ELSE IF ~_exists(tokenId) THEN "VM does not exist"
    ELSE IF ~stillProvisioning(vms[tokenId]) THEN "VM already provisioned"
    ELSE IF ~(now < vms[tokenId].expiresAt) THEN "VM expired"
    ELSE ""

setVMProvisionedRevert(sender, tokenId, instanceId, ipAddress) ==
    IF sender # Provisioner THEN "Only provisioner"
    ELSE IF ~_exists(tokenId) THEN "VM does not exist"
    ELSE IF ~stillProvisioning(vms[tokenId]) THEN "VM already provisioned"
    ELSE IF ~(now < vms[tokenId].expiresAt) THEN "VM expired"
    ELSE IF ~(instanceId # "") THEN "Invalid instance ID"
    ELSE IF ~(ipAddress # "") THEN "Invalid IP address"
    ELSE ""

setVMProvisioned(sender, tokenId, instanceId, ipAddress) ==
    LET call == Call("setVMProvisioned", sender, tokenId, 0, 0, instanceId, ipAddress)
        reason == setVMProvisionedRevert(sender, tokenId, instanceId, ipAddress)
    IN  IF reason # ""
        THEN Reverted(call, reason)
        ELSE /\ vms' = [vms EXCEPT ![tokenId].instanceId = instanceId,
                                   ![tokenId].ipAddress = ipAddress,
                                   ![tokenId].status = ACTIVE,
                                   ![tokenId].provisionedAt = now]
             /\ everProvisioned' = [everProvisioned EXCEPT ![tokenId] = TRUE]
             /\ UNCHANGED <<paused, tokenIdCounter, owners, balance, allowance>>
             /\ Committed(call, <<VMProvisioned(tokenId, instanceId, ipAddress)>>)

----------------------------------------------------------------------------
(* renewVM                                                                 *)

VMRenewed(tokenId, oldExpiresAt, newExpiresAt, cost) ==
    [event |-> "VMRenewed", tokenId |-> tokenId, oldExpiresAt |-> oldExpiresAt,
     newExpiresAt |-> newExpiresAt, cost |-> cost]

VMReactivated(tokenId) ==
    [event |-> "VMReactivated", tokenId |-> tokenId, timestamp |-> now]

\* a grace period that still admits the instant it ends
withinGrace_inclusive(vm) == now <= vm.expiresAt + GRACE_PERIOD

\* the grace period check of renewVM
withinGrace(vm) == now < vm.expiresAt + GRACE_PERIOD

\* renewVM without the check of the duration
renewVMRevert_anyDuration(sender, tokenId, additionalMonths) ==
    IF paused THEN "Pausable: paused"
    ELSE IF ~_exists(tokenId) THEN "VM does not exist"
    ELSE IF ~(ownerOf(tokenId) = sender) THEN "Not VM owner"
    ELSE IF ~(vms[tokenId].status # TERMINATED) THEN "VM terminated"
    ELSE IF ~withinGrace(vms[tokenId]) THEN "VM expired beyond grace period"
    ELSE IF ~safeTransferFrom(sender, _getTierPrice(vms[tokenId].tier) * additionalMonths)
        THEN "ERC20: transfer failed"
    ELSE ""

\* renewVM without the check of the owner
renewVMRevert_anyCaller(sender, tokenId, additionalMonths) ==
    IF paused THEN "Pausable: paused"
    ELSE IF ~_exists(tokenId) THEN "VM does not exist"
    ELSE IF ~(additionalMonths > 0 /\ additionalMonths <= 12) THEN "Invalid duration"
    ELSE IF ~(vms[tokenId].status # TERMINATED) THEN "VM terminated"
    ELSE IF ~withinGrace(vms[tokenId]) THEN "VM expired beyond grace period"
    ELSE IF ~safeTransferFrom(sender, _getTierPrice(vms[tokenId].tier) * additionalMonths)
        THEN "ERC20: transfer failed"
    ELSE ""

renewVMRevert(sender, tokenId, additionalMonths) ==
    IF paused THEN "Pausable: paused"
    ELSE IF ~_exists(tokenId) THEN "VM does not exist"
    ELSE IF ~(ownerOf(tokenId) = sender) THEN "Not VM owner"
    ELSE IF ~(additionalMonths > 0 /\ additionalMonths <= 12) THEN "Invalid duration"
    ELSE IF ~(vms[tokenId].status # TERMINATED) THEN "VM terminated"
    ELSE IF ~withinGrace(vms[tokenId]) THEN "VM expired beyond grace period"
    ELSE IF ~safeTransferFrom(sender, _getTierPrice(vms[tokenId].tier) * additionalMonths)
        THEN "ERC20: transfer failed"
    ELSE ""

\* the branch condition "if expired, renew from now"
renewFromNow(vm) == now > vm.expiresAt

\* a renewal that always counts from now
renewedExpiresAt_fromNow(vm, additionalMonths) ==
    now + (additionalMonths * SECONDS_PER_MONTH)

\* a renewal that always extends the stored expiry
renewedExpiresAt_extend(vm, additionalMonths) ==
    vm.expiresAt + (additionalMonths * SECONDS_PER_MONTH)

renewedExpiresAt(vm, additionalMonths) ==
    IF renewFromNow(vm)
    THEN now + (additionalMonths * SECONDS_PER_MONTH)
    ELSE vm.expiresAt + (additionalMonths * SECONDS_PER_MONTH)

renewedStatus(vm) ==
    IF renewFromNow(vm) /\ vm.status = SUSPENDED THEN ACTIVE ELSE vm.status

renewVM(sender, tokenId, additionalMonths) ==
    LET call == Call("renewVM", sender, tokenId, 0, additionalMonths, "", "")
        reason == renewVMRevert(sender, tokenId, additionalMonths)
        vm == vms[tokenId]
        renewalCost == _getTierPrice(vm.tier) * additionalMonths
    IN  IF reason # ""
        THEN Reverted(call, reason)
        ELSE /\ Pay(sender, renewalCost)
             /\ vms' = [vms EXCEPT
                           ![tokenId].expiresAt = renewedExpiresAt(vm, additionalMonths),
                           ![tokenId].status = renewedStatus(vm),
                           ![tokenId].lastRenewal = now]
             /\ UNCHANGED <<paused, tokenIdCounter, owners, everProvisioned>>
             /\ Committed(call,
                   (IF renewFromNow(vm) /\ vm.status = SUSPENDED
                    THEN <<VMReactivated(tokenId)>> ELSE <<>>)
                   \o <<VMRenewed(tokenId, vm.expiresAt,
                                  renewedExpiresAt(vm, additionalMonths), renewalCost)>>)

----------------------------------------------------------------------------
(* terminateVM                                                             *)

\* terminateVM without the check of the owner
terminateVMRevert_anyCaller(sender, tokenId) ==
    IF ~_exists(tokenId) THEN "VM does not exist"
    ELSE IF ~(vms[tokenId].status # TERMINATED) THEN "Already terminated"
    ELSE ""

terminateVMRevert(sender, tokenId) ==
    IF ~_exists(tokenId) THEN "VM does not exist"
    ELSE IF ~(ownerOf(tokenId) = sender) THEN "Not VM owner"
    ELSE IF ~(vms[tokenId].status # TERMINATED) THEN "Already terminated"
    ELSE ""

\* the record that is left in vms[tokenId]: status TERMINATED is written,
\* then the slot is deleted
terminatedRecord(vm) == EmptyVM

terminateVM(sender, tokenId) ==
    LET call == Call("terminateVM", sender, tokenId, 0, 0, "", "")
        reason == terminateVMRevert(sender, tokenId)
    IN  IF reason # ""
        THEN Reverted(call, reason)
        ELSE /\ owners' = [owners EXCEPT ![tokenId] = NoOwner]
             /\ vms' = [vms EXCEPT ![tokenId] = terminatedRecord(vms[tokenId])]
             /\ UNCHANGED <<paused, tokenIdCounter, everProvisioned, balance, allowance>>
             /\ Committed(call, <<VMTerminated(tokenId, sender)>>)

----------------------------------------------------------------------------
(* suspendVM, reactivateVM                                                 *)

VMSuspended(tokenId) ==
    [event |-> "VMSuspended", tokenId |-> tokenId, timestamp |-> now]

\* a status check that only refuses a terminated VM
canSuspend_notTerminated(vm) == vm.status # TERMINATED

\* require(vms[tokenId].status == Status.ACTIVE)
canSuspend(vm) == vm.status = ACTIVE

suspendVMRevert(sender, tokenId) ==
    IF ~_exists(tokenId) THEN "VM does not exist"
    ELSE IF ~(sender = ownerOf(tokenId) \/ sender = Provisioner) THEN "Not authorized"
    ELSE IF ~canSuspend(vms[tokenId]) THEN "VM not active"
    ELSE ""

suspendVM(sender, tokenId) ==
    LET call == Call("suspendVM", sender, tokenId, 0, 0, "", "")
        reason == suspendVMRevert(sender, tokenId)
    IN  IF reason # ""
        THEN Reverted(call, reason)
        ELSE /\ vms' = [vms EXCEPT ![tokenId].status = SUSPENDED]
             /\ UNCHANGED <<paused, tokenIdCounter, owners, everProvisioned,
                            balance, allowance>>
             /\ Committed(call, <<VMSuspended(tokenId)>>)

\* reactivateVM without the check of the expiry
reactivateVMRevert_expired(sender, tokenId) ==
    IF ~_exists(tokenId) THEN "VM does not exist"
    ELSE IF ~(ownerOf(tokenId) = sender) THEN "Not VM owner"
    ELSE IF ~(vms[tokenId].status = SUSPENDED) THEN "VM not suspended"
    ELSE ""

reactivateVMRevert(sender, tokenId) ==
    IF ~_exists(tokenId) THEN "VM does not exist"
    ELSE IF ~(ownerOf(tokenId) = sender) THEN "Not VM owner"
    ELSE IF ~(vms[tokenId].status = SUSPENDED) THEN "VM not suspended"
    ELSE IF ~(now < vms[tokenId].expiresAt) THEN "VM expired, use renewVM"
    ELSE ""

reactivateVM(sender, tokenId) ==
    LET call == Call("reactivateVM", sender, tokenId, 0, 0, "", "")
        reason == reactivateVMRevert(sender, tokenId)
    IN  IF reason # ""
        THEN Reverted(call, reason)
        ELSE /\ vms' = [vms EXCEPT ![tokenId].status = ACTIVE]
             /\ UNCHANGED <<paused, tokenIdCounter, owners, everProvisioned,
                            balance, allowance>>
             /\ Committed(call, <<VMReactivated(tokenId)>>)

----------------------------------------------------------------------------
(* updateIPAddress                                                         *)

IPAddressUpdated(tokenId, oldIP, newIP) ==
    [event |-> "IPAddressUpdated", tokenId |-> tokenId, oldIP |-> oldIP,
     newIP |-> newIP]

\* updateIPAddress without the check of the new address
updateIPAddressRevert_anyIP(sender, tokenId, newIP) ==
    IF sender # Provisioner THEN "Only provisioner"
    ELSE IF ~_exists(tokenId) THEN "VM does not exist"
    ELSE IF ~(vms[tokenId].status # TERMINATED) THEN "VM terminated"
    ELSE ""

updateIPAddressRevert(sender, tokenId, newIP) ==
    IF sender # Provisioner THEN "Only provisioner"
    ELSE IF ~_exists(tokenId) THEN "VM does not exist"
    ELSE IF ~(vms[tokenId].status # TERMINATED) THEN "VM terminated"
    ELSE IF ~(newIP # "") THEN "Invalid IP"
    ELSE ""

updateIPAddress(sender, tokenId, newIP) ==
    LET call == Call("updateIPAddress", sender, tokenId, 0, 0, "", newIP)
        reason == updateIPAddressRevert(sender, tokenId, newIP)
    IN  IF reason # ""
        THEN Reverted(call, reason)
        ELSE /\ vms' = [vms EXCEPT ![tokenId].ipAddress = newIP]
             /\ UNCHANGED <<paused, tokenIdCounter, owners, everProvisioned,
                            balance, allowance>>
             /\ Committed(call,
                   <<IPAddressUpdated(tokenId, vms[tokenId].ipAddress, newIP)>>)

----------------------------------------------------------------------------
(* Read functions                                                          *)

getVMDetailsRevert(tokenId) ==
    IF ~_exists(tokenId) THEN "VM does not exist" ELSE ""

isVMExpiredRevert(tokenId) ==
    IF ~_exists(tokenId) THEN "VM does not exist" ELSE ""

isVMExpired(tokenId) == now >= vms[tokenId].expiresAt

isInGracePeriodRevert(tokenId) ==
    IF ~_exists(tokenId) THEN "VM does not exist" ELSE ""

----------------------------------------------------------------------------
(* The inherited ERC721 transfer and the Pausable switch                   *)

Transfer(from, to, tokenId) ==
    [event |-> "Transfer", tokenId |-> tokenId, from |-> from, to |-> to]

\* a transfer that refuses a token whose VM is active
transferFromRevert_notActive(sender, to, tokenId) ==
    IF ~_exists(tokenId) THEN "ERC721: invalid token ID"
    ELSE IF ~(ownerOf(tokenId) = sender) THEN "ERC721: caller is not token owner or approved"
    ELSE IF vms[tokenId].status = ACTIVE THEN "VM active"
    ELSE ""

transferFromRevert(sender, to, tokenId) ==
    IF ~_exists(tokenId) THEN "ERC721: invalid token ID"
    ELSE IF ~(ownerOf(tokenId) = sender) THEN "ERC721: caller is not token owner or approved"
    ELSE ""

\* transferFrom(sender, to, tokenId) called by the owner of the token
transferFrom(sender, to, tokenId) ==
    LET call == Call("transferFrom", sender, tokenId, 0, 0, "", "")
        reason == transferFromRevert(sender, to, tokenId)
    IN  IF reason # ""
        THEN Reverted(call, reason)
        ELSE /\ owners' = [owners EXCEPT ![tokenId] = to]
             /\ UNCHANGED <<paused, tokenIdCounter, vms, everProvisioned,
                            balance, allowance>>
             /\ Committed(call, <<Transfer(sender, to, tokenId)>>)

\* pause() and unpause(), called by the owner of the contract
pause ==
    /\ ~paused
    /\ paused' = TRUE
    /\ UNCHANGED <<tokenIdCounter, owners, vms, everProvisioned, balance, allowance>>
    /\ Committed(Call("pause", "deployer", 0, 0, 0, "", ""), <<>>)

unpause ==
    /\ paused
    /\ paused' = FALSE
    /\ UNCHANGED <<tokenIdCounter, owners, vms, everProvisioned, balance, allowance>>
    /\ Committed(Call("unpause", "deployer", 0, 0, 0, "", ""), <<>>)

----------------------------------------------------------------------------
(* Time                                                                    *)

\* 1 days
DaySeconds == GRACE_PERIOD \div 7

\* the moments around the expiry of a token that the functions tell apart
ExpiryOffsets == {0, 1, GRACE_PERIOD, GRACE_PERIOD + DaySeconds}

Moments(offsets) ==
    {vms[t].expiresAt + d : t \in {u \in TokenIds : _exists(u)}, d \in offsets}

\* a later block: block.timestamp moves to one of the moments ahead
AdvanceTimeBy(offsets) ==
    /\ \E t \in Moments(offsets) : t > now /\ now' = t
    /\ last' = NoCall
    /\ emitted' = <<>>
    /\ UNCHANGED ledgerVars

AdvanceTime == AdvanceTimeBy(ExpiryOffsets)

----------------------------------------------------------------------------
(* The ledger on its own                                                   *)

\* inputs of the callers
TierArgs == {MICRO, MEDIUM, XLARGE + 1}

MonthArgs == {0, 1, 2, 13}

InitLedger(funds) ==
    /\ now = GenesisTime
    /\ paused = FALSE
    /\ tokenIdCounter = 0
    /\ owners = [t \in TokenIds |-> NoOwner]
    /\ vms = [t \in TokenIds |-> EmptyVM]
    /\ everProvisioned = [t \in TokenIds |-> FALSE]
    /\ balance = [a \in Holders |->
                      IF a = Alice THEN funds + BotFunds
                      ELSE IF a = Bot THEN BotFunds ELSE 0]
    /\ allowance = [a \in Callers |->
                      IF a = Alice THEN funds
                      ELSE IF a = Bot THEN BotFunds + BotFunds ELSE 0]
    /\ last = NoCall
    /\ emitted = <<>>

\* destroyVM was not called
NoDestroy == [instanceId |-> "", success |-> FALSE]

\* a run of handleVMPurchased that has not started
FreeHandler ==
    [pc |-> "free", tokenId |-> 0, instanceId |-> "", ipAddress |-> "", attempts |-> 0,
     sshPrivateKey |-> ""]

Handlers == 1 .. MaxHandlers

InitBackend(providers) ==
    /\ provider \in providers
    /\ handlers = [h \in Handlers |-> FreeHandler]
    /\ cloud = {}
    /\ vmStatus = [t \in TokenIds |-> "none"]
    /\ listening = TRUE
    /\ heard = {}
    /\ destroyReturn = NoDestroy

Init == InitLedger(SmallFunds) /\ InitBackend({"gcp"})

\* no token is held at the moment
NoLiveToken == \A t \in TokenIds : ~_exists(t)

Purchase(senders, tiers, months) ==
    \E s \in senders, t \in tiers, m \in months, cb \in {"none", "terminate", "transfer"} :
        purchaseVM(s, t, m, cb)

SetProvisioned ==
    \E s \in Callers, id \in IdArgs, a \in ProvisionArgs :
        setVMProvisioned(s, id, a[1], a[2])

Renew == \E s \in Callers, id \in IdArgs, m \in MonthArgs : renewVM(s, id, m)

Terminate == \E s \in Callers, id \in IdArgs : terminateVM(s, id)

\* the owner of a token terminates it
OwnerTerminates == \E id \in TokenIds : _exists(id) /\ terminateVM(ownerOf(id), id)

Suspend == \E s \in Callers, id \in IdArgs : suspendVM(s, id)

Reactivate == \E s \in Callers, id \in IdArgs : reactivateVM(s, id)

UpdateIP == \E s \in Callers, id \in IdArgs, ip \in NewIpArgs : updateIPAddress(s, id, ip)

TransferToken == \E s \in Callers, to \in {Alice, Bot}, id \in IdArgs : transferFrom(s, to, id)

\* The record of a committed transaction is cleared before the next one is
\* sent: `last` and `emitted` describe one transaction only.
Settle ==
    /\ last # NoCall
    /\ last' = NoCall
    /\ emitted' = <<>>
    /\ UNCHANGED <<now, ledgerVars, backendVars>>

Idle == last = NoCall

\* Spec is the ledger with its callers, the backend standing still.  It
\* follows one entitlement at a time through its whole life: the next
\* purchase is made once the token before it is gone.
Next ==
    \/ (Idle /\ NoLiveToken /\ tokenIdCounter < MaxLives
             /\ Purchase(Callers, TierArgs, MonthArgs) /\ UNCHANGED backendVars)
    \/ (Idle /\ SetProvisioned /\ UNCHANGED backendVars)
    \/ (Idle /\ Renew /\ UNCHANGED backendVars)
    \/ (Idle /\ Terminate /\ UNCHANGED backendVars)
    \/ (Idle /\ Suspend /\ UNCHANGED backendVars)
    \/ (Idle /\ Reactivate /\ UNCHANGED backendVars)
    \/ (Idle /\ UpdateIP /\ UNCHANGED backendVars)
    \/ (Idle /\ TransferToken /\ UNCHANGED backendVars)
    \/ (Idle /\ AdvanceTime /\ UNCHANGED backendVars)
    \/ Settle

Spec == Init /\ [][Next]_vars

----------------------------------------------------------------------------
(* Purchases alone, over every tier and duration a caller can name         *)

AllTierArgs == 0 .. (XLARGE + 1)

AllMonthArgs == 0 .. 13

InitPrice == InitLedger(LargeFunds) /\ InitBackend({"gcp"})

\* one purchase after the other, the next once the token before is gone
NextPrice ==
    \/ (Idle /\ NoLiveToken
             /\ Purchase(Callers, AllTierArgs, AllMonthArgs) /\ UNCHANGED backendVars)
    \/ (Idle /\ OwnerTerminates /\ UNCHANGED backendVars)
    \/ Settle

SpecPrice == InitPrice /\ [][NextPrice]_vars

----------------------------------------------------------------------------
(* The ledger with its Pausable switch                                     *)

\* inputs of the buyers when the switch is used
PauseTierArgs == {MICRO}

PauseMonthArgs == {1}

\* Every function of the ledger, for one entitlement, with the owner of the
\* contract pausing and unpausing it at any moment.
NextPause ==
    \/ (Idle /\ NoLiveToken /\ tokenIdCounter < MaxLives
             /\ Purchase(Callers, PauseTierArgs, PauseMonthArgs) /\ UNCHANGED backendVars)
    \/ (Idle /\ SetProvisioned /\ UNCHANGED backendVars)
    \/ (Idle /\ Renew /\ UNCHANGED backendVars)
    \/ (Idle /\ Terminate /\ UNCHANGED backendVars)
    \/ (Idle /\ Suspend /\ UNCHANGED backendVars)
    \/ (Idle /\ Reactivate /\ UNCHANGED backendVars)
    \/ (Idle /\ UpdateIP /\ UNCHANGED backendVars)
    \/ (Idle /\ TransferToken /\ UNCHANGED backendVars)
    \/ (Idle /\ AdvanceTime /\ UNCHANGED backendVars)
    \/ (Idle /\ pause /\ UNCHANGED backendVars)
    \/ (Idle /\ unpause /\ UNCHANGED backendVars)
    \/ Settle

SpecPause == Init /\ [][NextPause]_vars

----------------------------------------------------------------------------
(* The backend: the event listener and the provisioner                     *)

\* rounds the loop that waits for the public IP of an AWS instance makes
POLL_ATTEMPTS == 30

\* rounds of that loop in the behaviours of SpecBackend
MaxPollRounds == 2

\* vmName = `clawcloud-${tokenId}`
GcpName(tokenId) ==
    <<"clawcloud-0", "clawcloud-1", "clawcloud-2", "clawcloud-3">>[tokenId + 1]

\* the InstanceId of the n-th instance that RunInstances starts
AwsInstanceId(n) == <<"i-01", "i-02", "i-03", "i-04">>[n]

\* the address the provider gives the n-th instance
PublicIp(n) == <<"34.0.0.1", "34.0.0.2", "34.0.0.3", "34.0.0.4">>[n]

\* generateSSHKeyPair(): the n-th call of generateKeyPairSync gives an RSA
\* key pair that no other call gives
generateSSHKeyPair(n) ==
    [publicKey |-> <<"pub-1", "pub-2", "pub-3", "pub-4">>[n],
     privateKey |-> <<"priv-1", "priv-2", "priv-3", "priv-4">>[n]]

\* process.env.AWS_KEY_PAIR_NAME: the EC2 key pair of the deployment, whose
\* public key EC2 installs on an instance started with that KeyName
AWS_KEY_PAIR_NAME == "pub-env"

\* an instance at the provider; keys are the public keys it accepts
Instance(id, tokenId, ip, keys) ==
    [id |-> id, tokenId |-> tokenId, ip |-> ip, keys |-> keys]

InstancesOf(tokenId) == {i \in cloud : i.tokenId = tokenId}

\* contract.on('VMPurchased', handleVMPurchased): the listener is handed the
\* VMPurchased event of a token and starts a run of the handler.  An event
\* may be handed over more than once.
handleVMPurchased(h, tokenId) ==
    /\ handlers[h].pc = "free"
    /\ tokenId < tokenIdCounter
    /\ handlers' = [handlers EXCEPT ![h] = [FreeHandler EXCEPT !.pc = "provisionVM",
                                                               !.tokenId = tokenId]]
    /\ UNCHANGED <<processVars, cloud, vmStatus>>

\* provisionGCP: createVM under the name of the token.  The provider
\* refuses a name that is taken; any call to it may fail.
provisionGCP(h) ==
    LET t == handlers[h].tokenId
        n == Cardinality(cloud) + 1
    IN  /\ handlers[h].pc = "provisionVM"
        /\ provider = "gcp"
        /\ \/ /\ \A i \in cloud : i.id # GcpName(t)
              /\ cloud' = cloud \cup {Instance(GcpName(t), t, PublicIp(n),
                                                {generateSSHKeyPair(n).publicKey})}
              /\ handlers' = [handlers EXCEPT ![h].pc = "provisioned",
                                               ![h].instanceId = GcpName(t),
                                               ![h].ipAddress = PublicIp(n),
                                               ![h].sshPrivateKey =
                                                   generateSSHKeyPair(n).privateKey]
           \/ /\ handlers' = [handlers EXCEPT ![h].pc = "failed"]
              /\ UNCHANGED cloud
        /\ UNCHANGED <<processVars, vmStatus>>

\* provisionAWS up to the polling loop: RunInstances starts a new instance
\* each time it is called; the call may fail.
runInstancesAWS(h) ==
    LET t == handlers[h].tokenId
        n == Cardinality(cloud) + 1
    IN  /\ handlers[h].pc = "provisionVM"
        /\ provider = "aws"
        /\ \/ /\ cloud' = cloud \cup {Instance(AwsInstanceId(n), t, PublicIp(n),
                                                {generateSSHKeyPair(n).publicKey,
                                                 AWS_KEY_PAIR_NAME})}
              /\ handlers' = [handlers EXCEPT ![h].pc = "polling",
                                               ![h].instanceId = AwsInstanceId(n),
                                               ![h].sshPrivateKey =
                                                   generateSSHKeyPair(n).privateKey]
           \/ /\ handlers' = [handlers EXCEPT ![h].pc = "failed"]
              /\ UNCHANGED cloud
        /\ UNCHANGED <<processVars, vmStatus>>

\* the loop goes on after one more round than the limit
keepPolling_oneMore(attempts, limit) == attempts <= limit

\* while (!publicIP && attempts < 30), for a loop that has no IP yet
keepPolling(attempts, limit) == attempts < limit

\* one round of the polling loop: DescribeInstances shows the public IP,
\* does not show it yet, or fails
pollAWS(h, limit) ==
    LET me == CHOOSE i \in cloud : i.id = handlers[h].instanceId
    IN  /\ handlers[h].pc = "polling"
        /\ keepPolling(handlers[h].attempts, limit)
        /\ \/ handlers' = [handlers EXCEPT ![h].pc = "provisioned",
                                            ![h].ipAddress = me.ip,
                                            ![h].attempts = @ + 1]
           \/ handlers' = [handlers EXCEPT ![h].attempts = @ + 1]
           \/ handlers' = [handlers EXCEPT ![h].pc = "failed"]
        /\ UNCHANGED <<processVars, cloud, vmStatus>>

\* the loop ends without an IP: provisionAWS throws, provisionVM returns
\* success: false
pollTimeout(h, limit) ==
    /\ handlers[h].pc = "polling"
    /\ ~keepPolling(handlers[h].attempts, limit)
    /\ handlers' = [handlers EXCEPT ![h].pc = "failed"]
    /\ UNCHANGED <<processVars, cloud, vmStatus>>

\* the write-back is made whatever provisionVM returned
provisionSucceeded_always(pc) == pc \in {"provisioned", "failed"}

\* if (provisionResult.success)
provisionSucceeded(pc) == pc = "provisioned"

\* the handler goes on as if every transaction had been mined
writeBackOutcome_ignoreRevert(reason) == "confirmed"

\* tx.wait() returns for a mined transaction and throws for a reverted one,
\* which takes the handler to its catch block
writeBackOutcome(reason) == IF reason = "" THEN "confirmed" ELSE "error"

\* contract.setVMProvisioned(...) and tx.wait(): the transaction of the
\* backend wallet is mined, or it reverts and the handler catches the error
writeBack(h) ==
    LET t == handlers[h].tokenId
        id == handlers[h].instanceId
        ip == handlers[h].ipAddress
    IN  /\ provisionSucceeded(handlers[h].pc)
        /\ setVMProvisioned(Provisioner, t, id, ip)
        /\ handlers' = [handlers EXCEPT ![h].pc =
                            writeBackOutcome(setVMProvisionedRevert(Provisioner, t, id, ip))]
        /\ UNCHANGED <<processVars, cloud, vmStatus>>

\* every run records that it is still provisioning
finalStatus_pending(pc) == "provisioning"

\* the status the handler passes to updateVMStatus at its end
finalStatus(pc) ==
    CASE pc = "confirmed" -> "running"
      [] pc = "failed"    -> "failed"
      [] pc = "error"     -> "error"

updateVMStatus(h) ==
    /\ handlers[h].pc \in {"confirmed", "failed", "error"}
    /\ ~provisionSucceeded(handlers[h].pc)
    /\ vmStatus' = [vmStatus EXCEPT ![handlers[h].tokenId] = finalStatus(handlers[h].pc)]
    /\ handlers' = [handlers EXCEPT ![h].pc = "done"]
    /\ UNCHANGED <<processVars, cloud>>

\* handleVMTerminated: the status is recorded; the instance is left alone
\* (TODO: Destroy VM on cloud provider)
handleVMTerminated(tokenId) ==
    /\ vmStatus' = [vmStatus EXCEPT ![tokenId] = "terminated"]
    /\ UNCHANGED <<processVars, handlers, cloud>>

\* the signature of an event as the contract declares it; its hash is the
\* first topic of the log
EventSignature(name) ==
    CASE name = "VMPurchased" ->
             "VMPurchased(uint256,address,uint8,uint256,uint256,uint256)"
      [] name = "VMTerminated" -> "VMTerminated(uint256,address,uint256)"
      [] OTHER -> name

\* the signature of an event as CONTRACT_ABI of the listener declares it
CONTRACT_ABI(name) ==
    CASE name = "VMPurchased" ->
             "VMPurchased(uint256,address,uint8,uint256,uint256,uint256)"
      [] name = "VMTerminated" -> "VMTerminated(uint256)"

\* the events startListener subscribes to with contract.on
Subscriptions == {"VMPurchased", "VMTerminated"}

\* the logs of a transaction that the filter of a subscription lets through
Matching(events) ==
    {<<name, events[i].tokenId>> :
        <<name, i>> \in {x \in Subscriptions \X (1 .. Len(events)) :
                            EventSignature(events[x[2]].event) = CONTRACT_ABI(x[1])}}

\* A mined transaction reaches the provider of the listener: a running
\* listener receives the logs its filters match, a stopped one receives
\* nothing, then and later (the subscription starts at the current block).
receiveLogs ==
    /\ last # NoCall
    /\ last' = NoCall
    /\ emitted' = <<>>
    /\ heard' = IF listening THEN heard \cup Matching(emitted) ELSE heard
    /\ UNCHANGED <<now, ledgerVars, provider, handlers, cloud, vmStatus, listening,
                   destroyReturn>>

\* the callback of a subscription is called with a log it has received
dispatch(h, ev) ==
    /\ listening
    /\ ev \in heard
    /\ IF ev[1] = "VMPurchased"
       THEN handleVMPurchased(h, ev[2])
       ELSE handleVMTerminated(ev[2])

\* a run of handleVMPurchased between its call and its return
InProgress(h) == handlers[h].pc \notin {"free", "done", "killed"}

\* the process exits (SIGINT, or a crash): its runs end where they are and
\* what it had received is gone
stopListener ==
    /\ listening
    /\ listening' = FALSE
    /\ heard' = {}
    /\ handlers' = [h \in Handlers |->
                        IF InProgress(h) THEN [handlers[h] EXCEPT !.pc = "killed"]
                        ELSE handlers[h]]
    /\ UNCHANGED <<provider, cloud, vmStatus, destroyReturn>>

\* the process is started again: startListener subscribes anew
startListener ==
    /\ ~listening
    /\ listening' = TRUE
    /\ UNCHANGED <<provider, handlers, cloud, vmStatus, heard, destroyReturn>>

\* another holder of the provisioner key (an operator, a retry job) writes
\* the identity of an instance of the token to the ledger
operatorWriteBack ==
    \E i \in cloud : setVMProvisioned(Provisioner, i.tokenId, i.id, i.ip)

\* inputs of the buyers when the backend runs
BackendTierArgs == {MICRO}

BackendMonthArgs == {1}

InitBackendSpec == InitLedger(SmallFunds) /\ InitBackend({"gcp", "aws"})

NextBackend ==
    \/ (Idle /\ Purchase({Alice}, BackendTierArgs, BackendMonthArgs)
             /\ UNCHANGED backendVars)
    \/ (Idle /\ OwnerTerminates /\ UNCHANGED backendVars)
    \/ (Idle /\ AdvanceTimeBy({0}) /\ UNCHANGED backendVars)
    \/ (Idle /\ operatorWriteBack /\ UNCHANGED backendVars)
    \/ receiveLogs
    \/ \E h \in Handlers, ev \in heard :
          Idle /\ dispatch(h, ev) /\ UNCHANGED <<now, ledgerVars, last, emitted>>
    \/ (Idle /\ stopListener /\ UNCHANGED <<now, ledgerVars, last, emitted>>)
    \/ \E h \in Handlers :
          Idle /\ provisionGCP(h) /\ UNCHANGED <<now, ledgerVars, last, emitted>>
    \/ \E h \in Handlers :
          Idle /\ runInstancesAWS(h) /\ UNCHANGED <<now, ledgerVars, last, emitted>>
    \/ \E h \in Handlers :
          Idle /\ pollAWS(h, MaxPollRounds) /\ UNCHANGED <<now, ledgerVars, last, emitted>>
    \/ \E h \in Handlers :
          Idle /\ pollTimeout(h, MaxPollRounds) /\ UNCHANGED <<now, ledgerVars, last, emitted>>
    \/ \E h \in Handlers : Idle /\ writeBack(h)
    \/ \E h \in Handlers :
          Idle /\ updateVMStatus(h) /\ UNCHANGED <<now, ledgerVars, last, emitted>>

SpecBackend == InitBackendSpec /\ [][NextBackend]_vars

----------------------------------------------------------------------------
(* The listener over stops and restarts, each log handed over once         *)

\* the log was handed to its callback
Delivered(ev) ==
    IF ev[1] = "VMPurchased"
    THEN \E h \in Handlers : handlers[h].pc # "free" /\ handlers[h].tokenId = ev[2]
    ELSE vmStatus[ev[2]] = "terminated"

\* the callback of a subscription is called once for a log
deliverOnce == \E h \in Handlers, ev \in heard : ~Delivered(ev) /\ dispatch(h, ev)

\* the steps of one run of handleVMPurchased
handlerStep(h, limit) ==
    \/ provisionGCP(h)
    \/ runInstancesAWS(h)
    \/ pollAWS(h, limit)
    \/ pollTimeout(h, limit)
    \/ updateVMStatus(h)

NextListener ==
    \/ (Idle /\ tokenIdCounter < MaxLives
             /\ Purchase({Alice}, BackendTierArgs, BackendMonthArgs)
             /\ UNCHANGED backendVars)
    \/ (Idle /\ OwnerTerminates /\ UNCHANGED backendVars)
    \/ receiveLogs
    \/ (Idle /\ deliverOnce /\ UNCHANGED <<now, ledgerVars, last, emitted>>)
    \/ (Idle /\ stopListener /\ UNCHANGED <<now, ledgerVars, last, emitted>>)
    \/ (Idle /\ startListener /\ UNCHANGED <<now, ledgerVars, last, emitted>>)
    \/ \E h \in Handlers :
          Idle /\ handlerStep(h, MaxPollRounds)
               /\ UNCHANGED <<now, ledgerVars, last, emitted>>
    \/ \E h \in Handlers : Idle /\ writeBack(h)

\* The event loop of a running process runs every callback that is due, a
\* mined transaction reaches the provider, every call to the cloud and to
\* the ledger returns, and a stopped process is started again.
FairListener ==
    /\ WF_vars(receiveLogs)
    /\ SF_vars(Idle /\ deliverOnce /\ UNCHANGED <<now, ledgerVars, last, emitted>>)
    /\ WF_vars(Idle /\ startListener /\ UNCHANGED <<now, ledgerVars, last, emitted>>)
    /\ \A h \in Handlers :
          /\ WF_vars(Idle /\ handlerStep(h, MaxPollRounds)
                          /\ UNCHANGED <<now, ledgerVars, last, emitted>>)
          /\ WF_vars(Idle /\ writeBack(h))

SpecListener == InitBackendSpec /\ [][NextListener]_vars /\ FairListener

----------------------------------------------------------------------------
(* destroyVM, called for the instances the listener has created            *)

\* destroyVM(tokenId, provider, instanceId).  For 'gcp' the instance is
\* deleted and the operation awaited; a call that throws is caught and
\* success: false is returned.  For 'aws' the termination is commented out,
\* and for any other provider nothing is done: success: true is returned.
destroyVM(tokenId, prov, instanceId) ==
    /\ \/ /\ prov = "gcp"
          /\ \E i \in cloud : i.id = instanceId
          /\ cloud' = {i \in cloud : i.id # instanceId}
          /\ destroyReturn' = [instanceId |-> instanceId, success |-> TRUE]
       \/ /\ prov = "gcp"
          /\ UNCHANGED cloud
          /\ destroyReturn' = [instanceId |-> instanceId, success |-> FALSE]
       \/ /\ prov # "gcp"
          /\ UNCHANGED cloud
          /\ destroyReturn' = [instanceId |-> instanceId, success |-> TRUE]
    /\ UNCHANGED <<provider, handlers, vmStatus, listening, heard>>

\* an operator calls destroyVM for an instance of the deployment's provider
callDestroyVM == \E i \in cloud : destroyVM(i.tokenId, provider, i.id)

NextDestroy ==
    \/ (Idle /\ Purchase({Alice}, BackendTierArgs, BackendMonthArgs)
             /\ UNCHANGED backendVars)
    \/ receiveLogs
    \/ (Idle /\ deliverOnce /\ UNCHANGED <<now, ledgerVars, last, emitted>>)
    \/ \E h \in Handlers :
          Idle /\ handlerStep(h, MaxPollRounds)
               /\ UNCHANGED <<now, ledgerVars, last, emitted>>
    \/ \E h \in Handlers : Idle /\ writeBack(h)
    \/ (Idle /\ callDestroyVM /\ UNCHANGED <<now, ledgerVars, last, emitted>>)

SpecDestroy == InitBackendSpec /\ [][NextDestroy]_vars

----------------------------------------------------------------------------
(* The two handlers of the listener, each called with its event            *)

\* handleVMTerminated is called with the VMTerminated event of a token that
\* was burnt, as its registration with contract.on is written to do
callVMTerminated ==
    \E t \in TokenIds : t < tokenIdCounter /\ ~_exists(t) /\ handleVMTerminated(t)

NextHandlers ==
    \/ (Idle /\ Purchase({Alice}, BackendTierArgs, BackendMonthArgs)
             /\ UNCHANGED backendVars)
    \/ (Idle /\ OwnerTerminates /\ UNCHANGED backendVars)
    \/ receiveLogs
    \/ (Idle /\ deliverOnce /\ UNCHANGED <<now, ledgerVars, last, emitted>>)
    \/ (Idle /\ callVMTerminated /\ UNCHANGED <<now, ledgerVars, last, emitted>>)
    \/ \E h \in Handlers :
          Idle /\ handlerStep(h, MaxPollRounds)
               /\ UNCHANGED <<now, ledgerVars, last, emitted>>
    \/ \E h \in Handlers : Idle /\ writeBack(h)

SpecHandlers == InitBackendSpec /\ [][NextHandlers]_vars

----------------------------------------------------------------------------
(* The polling loop of provisionAWS at its full length                     *)

InitPoll == InitLedger(SmallFunds) /\ InitBackend({"aws"})

NextPoll ==
    \/ (Idle /\ Purchase({Alice}, BackendTierArgs, BackendMonthArgs)
             /\ UNCHANGED backendVars)
    \/ receiveLogs
    \/ (Idle /\ deliverOnce /\ UNCHANGED <<now, ledgerVars, last, emitted>>)
    \/ \E h \in Handlers :
          Idle /\ handlerStep(h, POLL_ATTEMPTS)
               /\ UNCHANGED <<now, ledgerVars, last, emitted>>
    \/ \E h \in Handlers : Idle /\ writeBack(h)

SpecPoll == InitPoll /\ [][NextPoll]_vars

----------------------------------------------------------------------------
(* Properties                                                              *)

\* C1: reconciler idempotency.  However often the VMPurchased event of a
\* token is handed to the listener, one after the other or overlapping, at
\* most one cloud instance is ever created for the token.
C1_AtMostOneInstance ==
    \A t \in TokenIds : Cardinality(InstancesOf(t)) <= 1

\* the call that the step commits or reverts
Sent(fn) == last'.fn = fn

Ok == last'.err = ""

Rejected == last'.err # "" /\ emitted' = <<>> /\ UNCHANGED ledgerVars

\* the token the call names
T == last'.tokenId

\* C2: setProvisioned is one-shot.  Once a setVMProvisioned for a token has
\* succeeded (everProvisioned is set by nothing else), every later
\* setVMProvisioned for that token, whatever its arguments, is rejected and
\* leaves the stored instanceId and ipAddress as they were.
C2_SetProvisionedOneShot ==
    [][(Sent("setVMProvisioned") /\ T \in TokenIds /\ everProvisioned[T])
        => /\ Rejected
           /\ vms'[T].instanceId = vms[T].instanceId
           /\ vms'[T].ipAddress = vms[T].ipAddress]_vars

\* a second write-back with other arguments was refused for an active VM
C2_Witness ==
    /\ last.fn = "setVMProvisioned"
    /\ last.err = "VM already provisioned"
    /\ last.sender = Provisioner
    /\ vms[last.tokenId].status = ACTIVE
    /\ vms[last.tokenId].instanceId = "i-a"
    /\ last.instanceId = "i-b"

\* the amount a call has to capture, for calls whose other checks pass
Due(call) ==
    IF call.fn = "purchaseVM"
    THEN _getTierPrice(call.tier) * call.months
    ELSE _getTierPrice(vms[call.tokenId].tier) * call.months

\* the payment of the call cannot be captured: the sender's balance or the
\* allowance given to the contract is short
PaymentFails(call) ==
    /\ call.months \in 1 .. 12
    /\ \/ call.fn = "purchaseVM" /\ call.tier \in MICRO .. XLARGE
       \/ call.fn = "renewVM" /\ _exists(call.tokenId)
    /\ \/ balance[call.sender] < Due(call)
       \/ allowance[call.sender] < Due(call)

\* C3: payment atomicity.  A purchaseVM or renewVM whose payment cannot be
\* captured reverts: no record, owner or id is created, no field of a
\* record, no balance and no allowance changes, and nothing is emitted.
C3_PaymentAtomicity ==
    [][PaymentFails(last') => Rejected]_vars

\* the owner's renewal failed for want of allowance, the balance sufficing
C3_Witness ==
    /\ last.fn = "renewVM"
    /\ last.err = "ERC20: transfer failed"
    /\ balance[last.sender] >= Due(last)
    /\ allowance[last.sender] < Due(last)

\* the price list of the specification, in 6-decimal units
ListPrice(tier) == <<5, 10, 25, 50, 100>>[tier + 1] * 1000000

\* C4: a successful purchase of tier t for d months moves exactly
\* ListPrice(t) * d from the buyer to the treasury and records that amount
\* as the cost of the VMPurchased event.
C4_PurchaseCost ==
    [][(Sent("purchaseVM") /\ Ok)
        => LET c == ListPrice(last'.tier) * last'.months
               ev == emitted'[Len(emitted')]
           IN  /\ last'.tier \in 0 .. 4
               /\ last'.months \in 1 .. 12
               /\ balance'[last'.sender] = balance[last'.sender] - c
               /\ balance'[Treasury] = balance[Treasury] + c
               /\ ev.event = "VMPurchased"
               /\ ev.cost = c]_vars

\* Scenario A: tier 2 for 3 months was bought for 75,000,000
C4_Witness ==
    /\ last.fn = "purchaseVM"
    /\ last.err = ""
    /\ last.tier = 2
    /\ last.months = 3
    /\ emitted[Len(emitted)].cost = 75000000
    /\ balance[Treasury] = 75000000

\* C5: a successful renewVM(id, n) sent before the expiry adds n months to
\* the stored expiry, leaves the status alone and sets lastRenewal to now.
C5_RenewBeforeExpiry ==
    [][(Sent("renewVM") /\ Ok /\ now < vms[T].expiresAt)
        => /\ vms'[T].expiresAt = vms[T].expiresAt + last'.months * SECONDS_PER_MONTH
           /\ vms'[T].status = vms[T].status
           /\ vms'[T].lastRenewal = now]_vars

\* a renewal for two months was committed before the expiry
C5_Witness ==
    /\ last.fn = "renewVM"
    /\ last.err = ""
    /\ last.months = 2
    /\ emitted[Len(emitted)].oldExpiresAt > now

\* C6: a successful renewVM(id, n) sent at or after the expiry (and so
\* within the grace period) sets the expiry to now plus n months.
C6_RenewAfterExpiry ==
    [][(Sent("renewVM") /\ Ok /\ vms[T].expiresAt <= now)
        => /\ now < vms[T].expiresAt + GRACE_PERIOD
           /\ vms'[T].expiresAt = now + last'.months * SECONDS_PER_MONTH]_vars

\* a renewal was committed after the expiry, within the grace period
C6_Witness ==
    /\ last.fn = "renewVM"
    /\ last.err = ""
    /\ emitted[Len(emitted)].oldExpiresAt < now
    /\ vms[last.tokenId].expiresAt = now + last.months * SECONDS_PER_MONTH

\* C7: a successful renewVM of a suspended VM sent at or after the expiry
\* (within the grace period) leaves the VM active, the instant
\* now = expiresAt included.
C7_RenewReactivates ==
    [][(Sent("renewVM") /\ Ok /\ vms[T].expiresAt <= now /\ vms[T].status = SUSPENDED)
        => vms'[T].status = ACTIVE]_vars

\* C8: a renewVM sent when now >= expiresAt + GRACE_PERIOD is rejected: no
\* payment is taken and expiresAt, status, lastRenewal and the balances stay.
C8_RenewAfterGrace ==
    [][(Sent("renewVM") /\ _exists(T) /\ now >= vms[T].expiresAt + GRACE_PERIOD)
        => Rejected]_vars

\* Scenario C: the owner's renewal 8 days after the expiry was refused
C8_Witness ==
    /\ last.fn = "renewVM"
    /\ last.err = "VM expired beyond grace period"
    /\ now = vms[last.tokenId].expiresAt + GRACE_PERIOD + DaySeconds
    /\ balance[Treasury] = _getTierPrice(vms[last.tokenId].tier)
                               * vms[last.tokenId].durationMonths

\* a token that was minted and burnt: terminateVM has succeeded for it
Gone(t) == t < tokenIdCounter /\ ~_exists(t)

\* C9: once terminateVM(id) has succeeded, the id has no owner and no stored
\* record, every lookup fails as not-found, and so does every mutating call
\* of a caller entitled to make it.
C9_TerminatedIsDeleted ==
    \A t \in TokenIds :
        Gone(t) =>
            /\ owners[t] = NoOwner
            /\ vms[t] = EmptyVM
            /\ getVMDetailsRevert(t) = "VM does not exist"
            /\ isVMExpiredRevert(t) = "VM does not exist"
            /\ isInGracePeriodRevert(t) = "VM does not exist"
            /\ \A a \in ProvisionArgs :
                  setVMProvisionedRevert(Provisioner, t, a[1], a[2]) = "VM does not exist"
            /\ \A ip \in NewIpArgs :
                  updateIPAddressRevert(Provisioner, t, ip) = "VM does not exist"
            /\ \A s \in Callers :
                  /\ \A m \in MonthArgs : renewVMRevert(s, t, m) = "VM does not exist"
                  /\ suspendVMRevert(s, t) = "VM does not exist"
                  /\ reactivateVMRevert(s, t) = "VM does not exist"
                  /\ terminateVMRevert(s, t) = "VM does not exist"

\* the status of an entitlement: that of its record while the token exists,
\* TERMINATED once the token is burnt
StatusOf(t) == IF Gone(t) THEN TERMINATED ELSE vms[t].status

\* the state machine of the specification
SpecTransitions ==
    {<<PROVISIONING, ACTIVE>>, <<ACTIVE, SUSPENDED>>, <<SUSPENDED, ACTIVE>>,
     <<ACTIVE, TERMINATED>>, <<SUSPENDED, TERMINATED>>}

\* C10 as stated: the status of an entitlement that exists changes only
\* along the transitions of the state machine.
C10_Transitions ==
    [][\A t \in TokenIds :
          (t < tokenIdCounter /\ StatusOf(t)' # StatusOf(t))
              => <<StatusOf(t), StatusOf(t)'>> \in SpecTransitions]_vars

\* C10 with the transition terminateVM also allows: the status of an
\* entitlement changes only from PROVISIONING to ACTIVE, ACTIVE to SUSPENDED,
\* SUSPENDED to ACTIVE, and from PROVISIONING, ACTIVE or SUSPENDED to
\* TERMINATED; nothing leaves TERMINATED.
C10_TransitionsAmended ==
    [][\A t \in TokenIds :
          (t < tokenIdCounter /\ StatusOf(t)' # StatusOf(t))
              => <<StatusOf(t), StatusOf(t)'>>
                    \in SpecTransitions \cup {<<PROVISIONING, TERMINATED>>}]_vars

\* a VM that was never provisioned was terminated by its owner
C10_Witness ==
    /\ last.fn = "terminateVM"
    /\ last.err = ""
    /\ ~everProvisioned[last.tokenId]
    /\ StatusOf(last.tokenId) = TERMINATED

\* C11: a VM for which no setVMProvisioned has succeeded (its status is
\* PROVISIONING) has an empty instanceId and an empty ipAddress in every
\* reachable state of the ledger.
C11_EmptyUntilProvisioned ==
    \A t \in TokenIds :
        (t < tokenIdCounter /\ vms[t].status = PROVISIONING /\ ~everProvisioned[t])
            => vms[t].instanceId = "" /\ vms[t].ipAddress = ""

\* the caller of the step is the owner of the token the call names
ByOwner == T \in TokenIds /\ last'.sender = owners[T]

\* C12: authorization.  setVMProvisioned and updateIPAddress sent by another
\* than the provisioner, renewVM, reactivateVM and terminateVM sent by
\* another than the owner of the token, and suspendVM sent by neither, are
\* rejected and change no ledger state.
C12_Authorization ==
    [][/\ ((Sent("setVMProvisioned") \/ Sent("updateIPAddress"))
               /\ last'.sender # Provisioner) => Rejected
       /\ ((Sent("renewVM") \/ Sent("reactivateVM") \/ Sent("terminateVM"))
               /\ ~ByOwner) => Rejected
       /\ (Sent("suspendVM") /\ ~ByOwner /\ last'.sender # Provisioner)
               => Rejected]_vars

\* the provisioner asked to terminate a VM that exists and was refused
C12_Witness ==
    /\ last.fn = "terminateVM"
    /\ last.sender = Provisioner
    /\ last.err = "Not VM owner"
    /\ _exists(last.tokenId)

\* C13: single-flight per id.  No two runs of a handler for the same token
\* are in progress at the same time.
C13_SingleFlight ==
    \A h1, h2 \in Handlers :
        (h1 # h2 /\ InProgress(h1) /\ InProgress(h2))
            => handlers[h1].tokenId # handlers[h2].tokenId

\* the step is one of run h of handleVMPurchased
StepOf(h) == handlers'[h] # handlers[h] /\ handlers'[h].pc # "killed"

\* C14: the status store never implies success without a write-back.  The
\* status 'running' is recorded for a token only by a run whose
\* setVMProvisioned for that token, with the instanceId and ipAddress the
\* run holds, was committed on the ledger; a run that is stopped on its way
\* records nothing.
C14_RunningAfterWriteBack ==
    [][\A h \in Handlers :
          /\ \A t \in TokenIds :
                (vmStatus'[t] = "running" /\ vmStatus[t] # "running" /\ StepOf(h))
                    => /\ handlers[h].pc = "confirmed"
                       /\ handlers[h].tokenId = t
                       /\ everProvisioned[t]
          /\ (StepOf(h) /\ handlers'[h].pc = "confirmed")
                => /\ Sent("setVMProvisioned") /\ Ok
                   /\ T = handlers[h].tokenId
                   /\ last'.instanceId = handlers[h].instanceId
                   /\ last'.ipAddress = handlers[h].ipAddress
                   /\ vms'[T].status = ACTIVE
                   /\ vms'[T].instanceId = handlers'[h].instanceId
                   /\ vms'[T].ipAddress = handlers'[h].ipAddress
          /\ \A t \in TokenIds :
                (vmStatus'[t] = "running" /\ vmStatus[t] # "running")
                    => \E g \in Handlers : StepOf(g)]_vars

\* 'running' is recorded for a token whose ledger record holds the identity
\* of the instance that was created for it
C14_Witness ==
    \E t \in TokenIds :
        /\ vmStatus[t] = "running"
        /\ vms[t].status = ACTIVE
        /\ \E i \in cloud : /\ i.tokenId = t
                             /\ i.id = vms[t].instanceId
                             /\ i.ip = vms[t].ipAddress

\* the ledger shows the token active with the identity run h holds
SameIdentity(h) ==
    LET t == handlers[h].tokenId
    IN  /\ _exists(t)
        /\ vms[t].status = ACTIVE
        /\ vms[t].instanceId = handlers[h].instanceId
        /\ vms[t].ipAddress = handlers[h].ipAddress

\* C15: benign double write-back.  A run whose setVMProvisioned was rejected
\* while the ledger shows the token active with the same instanceId and
\* ipAddress records 'running' for the token, not an error.
C15_BenignDoubleWriteBack ==
    [][\A h \in Handlers :
          (handlers[h].pc = "error" /\ handlers'[h].pc = "done" /\ SameIdentity(h))
              => vmStatus'[handlers[h].tokenId] = "running"]_vars

\* C16: every run of handleVMPurchased of a process that keeps running ends
\* with one call of updateVMStatus for its token: 'running' after a
\* committed write-back, 'failed' when provisionVM reports a failure,
\* 'error' when the write-back throws.
C16_FinalStatus ==
    /\ \A h \in Handlers :
          (handlers[h].pc = "provisionVM")
              ~> (handlers[h].pc = "killed"
                    \/ (handlers[h].pc = "done"
                          /\ vmStatus[handlers[h].tokenId]
                                \in {"running", "failed", "error"}))
    /\ [][\A h \in Handlers :
            (handlers'[h].pc = "done" /\ handlers[h].pc # "done")
                => vmStatus'[handlers[h].tokenId] =
                      CASE handlers[h].pc = "confirmed" -> "running"
                        [] handlers[h].pc = "failed" -> "failed"
                        [] handlers[h].pc = "error" -> "error"
                        [] OTHER -> "none"]_vars

\* a run has ended in its catch block and 'error' is recorded for its token
C16_Witness ==
    \E h \in Handlers :
        /\ handlers[h].pc = "done"
        /\ handlers[h].instanceId # ""
        /\ vmStatus[handlers[h].tokenId] = "error"

\* run h has left the polling loop without an address
NoAddress(h) ==
    /\ handlers[h].pc # "polling"
    /\ handlers[h].instanceId # ""
    /\ handlers[h].ipAddress = ""

\* C17: the polling loop makes at most 30 DescribeInstances attempts.  A run
\* that leaves it without an address has failed: the failure is returned by
\* provisionVM (the run goes to its else branch, not to its catch block, and
\* makes no write-back), it is recorded as 'failed', and the listener stays
\* subscribed.
C17_PollingBounded ==
    \A h \in Handlers :
        /\ handlers[h].attempts <= POLL_ATTEMPTS
        /\ NoAddress(h) => /\ handlers[h].pc \in {"failed", "done"}
                           /\ listening
        /\ (NoAddress(h) /\ handlers[h].pc = "done")
              => vmStatus[handlers[h].tokenId] = "failed"

\* a run has timed out and is recorded as failed while the run for a later
\* purchase has got its address
C17_Witness ==
    \E h, g \in Handlers :
        /\ NoAddress(h) /\ handlers[h].pc = "done"
        /\ handlers[h].attempts = POLL_ATTEMPTS
        /\ vmStatus[handlers[h].tokenId] = "failed"
        /\ handlers[g].tokenId > handlers[h].tokenId
        /\ handlers[g].pc = "provisioned"

\* C18: a failed provisioning attempt leaves the ledger untouched.  A run
\* whose provisionVM failed, by the polling bound or otherwise, sends no
\* transaction: the step in which it fails and every later step of the run
\* change nothing on the ledger, so the VM stays as it was, PROVISIONING
\* with empty instance fields if nobody else wrote to it.
C18_FailureLeavesLedger ==
    [][\A h \in Handlers :
          (StepOf(h) /\ (handlers[h].pc = "failed" \/ handlers'[h].pc = "failed"))
              => /\ UNCHANGED <<ledgerVars, last, emitted>>
                 /\ handlers'[h].pc \in {"failed", "done"}]_vars

\* the run for a token has timed out in the polling loop and has ended; the
\* VM is PROVISIONING with empty instance fields
C18_Witness ==
    \E h \in Handlers :
        LET t == handlers[h].tokenId
        IN  /\ handlers[h].pc = "done"
            /\ NoAddress(h)
            /\ handlers[h].attempts = MaxPollRounds
            /\ vmStatus[t] = "failed"
            /\ _exists(t)
            /\ vms[t].status = PROVISIONING
            /\ vms[t].instanceId = "" /\ vms[t].ipAddress = ""

\* C19: every VMTerminated event of the ledger is in the end handled by the
\* listener: the instance of the token is destroyed and 'terminated' is
\* recorded for the token.
C19_TerminatedHandled ==
    \A t \in TokenIds :
        Gone(t) ~> (vmStatus[t] = "terminated" /\ InstancesOf(t) = {})

\* C20: at-least-once delivery.  The VMPurchased event of every token that
\* was minted is in the end handed to handleVMPurchased, also when it was
\* committed while the listener was stopped.
C20_AtLeastOnce ==
    \A t \in TokenIds :
        (t < tokenIdCounter) ~> Delivered(<<"VMPurchased", t>>)

\* C21: ids are unique and never reused.  A successful purchaseVM is given
\* the id the counter shows, which no token holds or ever held (every id
\* that was assigned, held or burnt, is below it), and leaves the counter
\* one above it; no other step moves the counter.  So the id of a purchase
\* is above every id assigned before, the ids of burnt tokens included.
C21_UniqueIds ==
    [][/\ \A t \in TokenIds : (_exists(t) \/ vms[t] # EmptyVM) => t < tokenIdCounter
       /\ IF Sent("purchaseVM") /\ Ok
          THEN /\ T = tokenIdCounter
               /\ tokenIdCounter' = T + 1
               /\ emitted'[Len(emitted')].tokenId = T
               /\ owners[T] = NoOwner /\ vms[T] = EmptyVM
               /\ \A t \in TokenIds : Gone(t) => t < T
          ELSE tokenIdCounter' = tokenIdCounter]_vars

\* token 0 was terminated and the purchase after it was given id 1
C21_Witness ==
    /\ last.fn = "purchaseVM"
    /\ last.err = ""
    /\ last.tokenId = 1
    /\ Gone(0)
    /\ _exists(1)
    /\ emitted[Len(emitted)].tokenId = 1

\* C22: in every state of the ledger, every entitlement that exists expires
\* after it was purchased and has a duration of 1 to 12 months, whatever
\* purchases, renewals, suspensions, reactivations, write-backs and transfers
\* came before.
C22_ExpiryAfterPurchase ==
    \A t \in TokenIds :
        _exists(t) => /\ vms[t].expiresAt > vms[t].purchasedAt
                      /\ vms[t].durationMonths \in 1 .. 12

\* an entitlement bought for one month was renewed after its expiry and
\* then transferred
C22_Witness ==
    \E t \in TokenIds :
        /\ _exists(t)
        /\ last.fn = "transferFrom" /\ last.err = "" /\ last.tokenId = t
        /\ vms[t].durationMonths = 1
        /\ vms[t].lastRenewal > vms[t].purchasedAt + SECONDS_PER_MONTH
        /\ vms[t].expiresAt > vms[t].lastRenewal

\* C23: invalid input is rejected before any mutation.  A purchaseVM with a
\* tier outside 0..4 or a duration outside 1..12, and a renewVM with a
\* number of months outside 1..12, are rejected: no payment is taken, no id
\* is assigned, no record changes and no event is emitted.
C23_InvalidInputRejected ==
    [][/\ (Sent("purchaseVM")
               /\ (last'.tier \notin MICRO .. XLARGE \/ last'.months \notin 1 .. 12))
             => Rejected
       /\ (Sent("renewVM") /\ last'.months \notin 1 .. 12) => Rejected]_vars

\* the owner, who could have paid, asked to renew for 0 months and was refused
C23_Witness ==
    /\ last.fn = "renewVM"
    /\ last.months = 0
    /\ _exists(last.tokenId)
    /\ last.sender = ownerOf(last.tokenId)
    /\ last.err = "Invalid duration"
    /\ ~paused
    /\ now < vms[last.tokenId].expiresAt

\* the key pairs generateSSHKeyPair can give
KeyPairs == {generateSSHKeyPair(n) : n \in 1 .. 4}

\* C24: unique keys per instance.  Every instance is bootstrapped with the
\* public key of a key pair generated for it, the run that provisioned it
\* holds the matching private key, and no two instances accept a common
\* key.
C24_UniqueKeys ==
    /\ \A i \in cloud : \E kp \in KeyPairs : kp.publicKey \in i.keys
    /\ \A h \in Handlers :
          provisionSucceeded(handlers[h].pc)
              => \E i \in cloud, kp \in KeyPairs :
                    /\ i.id = handlers[h].instanceId
                    /\ kp.privateKey = handlers[h].sshPrivateKey
                    /\ kp.publicKey \in i.keys
    /\ \A i, j \in cloud : i # j => i.keys \cap j.keys = {}

\* C25: a successful purchaseVM(tier, d) at time now creates exactly one
\* record, owned by the buyer, with the given tier, status PROVISIONING,
\* purchasedAt = now, expiresAt = now + d * 2,629,800, empty instanceId and
\* ipAddress and everProvisioned false, and emits one VMPurchased event with
\* that id, buyer, tier, d, expiresAt and cost, and nothing else.
C25_PurchaseRecord ==
    [][(Sent("purchaseVM") /\ Ok)
        => LET d == last'.months
               expiry == now + d * 2629800
           IN  /\ owners'[T] = last'.sender
               /\ vms'[T] = [tier |-> last'.tier, purchasedAt |-> now,
                             expiresAt |-> expiry, durationMonths |-> d,
                             instanceId |-> "", ipAddress |-> "",
                             status |-> PROVISIONING, provisionedAt |-> 0,
                             lastRenewal |-> now]
               /\ ~everProvisioned'[T]
               /\ \A t \in TokenIds \ {T} :
                     owners'[t] = owners[t] /\ vms'[t] = vms[t]
               /\ emitted' = <<[event |-> "VMPurchased", tokenId |-> T,
                                buyer |-> last'.sender, tier |-> last'.tier,
                                durationMonths |-> d, expiresAt |-> expiry,
                                cost |-> _getTierPrice(last'.tier) * d]>>]_vars

\* the functions of the ledger that write to it
MutatingFunctions ==
    {"purchaseVM", "setVMProvisioned", "renewVM", "suspendVM", "reactivateVM",
     "terminateVM", "updateIPAddress"}

\* C26: pause gate.  While the ledger is paused every call of purchaseVM,
\* setVMProvisioned, renewVM, suspendVM, reactivateVM, terminateVM and
\* updateIPAddress is rejected and changes no state.
C26_PauseGate ==
    [][(paused /\ last'.fn \in MutatingFunctions) => Rejected]_vars

\* the step changes the status of token T to st and nothing else on the ledger
OnlyStatus(st) ==
    /\ vms' = [vms EXCEPT ![T].status = st]
    /\ UNCHANGED <<paused, tokenIdCounter, owners, everProvisioned, balance, allowance>>

\* C27: suspendVM succeeds only for an ACTIVE VM and then sets SUSPENDED;
\* reactivateVM succeeds only when sent by the owner for a SUSPENDED VM
\* before its expiry and then sets ACTIVE.  In another status, or for
\* reactivateVM at now >= expiresAt, the call is rejected with no change of
\* state; a call that succeeds changes the status field only.
C27_SuspendReactivate ==
    [][/\ (Sent("suspendVM") /\ T \in TokenIds)
             => /\ IF Ok THEN vms[T].status = ACTIVE /\ OnlyStatus(SUSPENDED)
                         ELSE Rejected
                /\ (_exists(T) /\ vms[T].status = ACTIVE
                        /\ (ByOwner \/ last'.sender = Provisioner)) => Ok
       /\ (Sent("reactivateVM") /\ T \in TokenIds)
             => /\ IF Ok THEN /\ ByOwner
                              /\ vms[T].status = SUSPENDED
                              /\ now < vms[T].expiresAt
                              /\ OnlyStatus(ACTIVE)
                         ELSE Rejected
                /\ (_exists(T) /\ ByOwner /\ vms[T].status = SUSPENDED
                        /\ now < vms[T].expiresAt) => Ok]_vars

\* the owner asked to reactivate a suspended VM at the instant of its
\* expiry and was refused
C27_Witness ==
    /\ last.fn = "reactivateVM"
    /\ _exists(last.tokenId)
    /\ last.sender = ownerOf(last.tokenId)
    /\ vms[last.tokenId].status = SUSPENDED
    /\ now = vms[last.tokenId].expiresAt
    /\ last.err = "VM expired, use renewVM"

\* the functions only the owner of a token may call
OwnerFunctions == {"renewVM", "reactivateVM", "terminateVM"}

\* C28: authorization follows the current owner.  The owner can transfer a
\* token in any status; the transfer changes the owner and no field of the
\* record.  renewVM, reactivateVM and terminateVM are refused to whoever is
\* not the owner at the time of the call (the owner before a transfer
\* included) and are not refused for want of ownership to the owner of the
\* moment; suspendVM is refused to whoever is neither that owner nor the
\* provisioner.
C28_AuthorizationFollowsOwner ==
    [][/\ (Sent("transferFrom") /\ T \in TokenIds /\ _exists(T) /\ ByOwner)
             => /\ Ok
                /\ owners' = [owners EXCEPT ![T] = emitted'[1].to]
                /\ UNCHANGED <<vms, everProvisioned, paused, tokenIdCounter,
                               balance, allowance>>
       /\ (last'.fn \in OwnerFunctions /\ T \in TokenIds /\ _exists(T))
             => IF ByOwner THEN last'.err # "Not VM owner"
                ELSE Rejected /\ last'.err = "Not VM owner"
       /\ (Sent("suspendVM") /\ T \in TokenIds /\ _exists(T))
             => IF ByOwner \/ last'.sender = Provisioner
                THEN last'.err # "Not authorized"
                ELSE Rejected /\ last'.err = "Not authorized"]_vars

\* an active VM bought by Alice is Bot's after a transfer: the VM is still
\* active and Alice's call to terminate it was refused
C28_Witness ==
    /\ last.fn = "terminateVM"
    /\ last.sender = Alice
    /\ last.err = "Not VM owner"
    /\ ownerOf(last.tokenId) = Bot
    /\ balance[Bot] = BotFunds
    /\ balance[Treasury] > 0
    /\ vms[last.tokenId].status = ACTIVE

\* C29: the expiry of an entitlement is changed only by a renewVM of its
\* owner that succeeds: setVMProvisioned, suspendVM, reactivateVM,
\* updateIPAddress, a transfer, pause, unpause and the passage of time leave
\* every expiresAt as it is; and only a terminateVM of its owner that
\* succeeds removes an entitlement or makes it TERMINATED, however long ago
\* it expired.
C29_ExpiryOnlyByRenew ==
    [][\A t \in TokenIds :
          _exists(t)
             => /\ (_exists(t)' /\ vms'[t].expiresAt # vms[t].expiresAt)
                      => /\ Sent("renewVM") /\ Ok /\ T = t /\ ByOwner
                         /\ vms'[t].expiresAt > vms[t].expiresAt
                /\ (~_exists(t)' \/ vms'[t].status = TERMINATED
                        \/ vms'[t].expiresAt = 0)
                      => Sent("terminateVM") /\ Ok /\ T = t /\ ByOwner]_vars

\* a VM was suspended more than the grace period after its expiry while the
\* ledger was paused: it is still there with the expiry of its purchase
C29_Witness ==
    /\ last.fn = "suspendVM"
    /\ last.err = ""
    /\ paused
    /\ _exists(last.tokenId)
    /\ now > vms[last.tokenId].expiresAt + GRACE_PERIOD
    /\ vms[last.tokenId].expiresAt =
          vms[last.tokenId].purchasedAt
              + vms[last.tokenId].durationMonths * SECONDS_PER_MONTH

\* C30: setVMProvisioned succeeds only for a PROVISIONING VM before its
\* expiry and with a non-empty instanceId and ipAddress; it then sets the
\* status ACTIVE, provisionedAt = now and everProvisioned, and stores both
\* strings.  For a VM that has expired, or with an empty string, the call is
\* rejected and the VM stays PROVISIONING with empty instance fields.
C30_SetProvisioned ==
    [][(Sent("setVMProvisioned") /\ T \in TokenIds)
        => /\ IF Ok
              THEN /\ vms[T].status = PROVISIONING
                   /\ now < vms[T].expiresAt
                   /\ last'.instanceId # "" /\ last'.ipAddress # ""
                   /\ vms' = [vms EXCEPT ![T].status = ACTIVE,
                                         ![T].provisionedAt = now,
                                         ![T].instanceId = last'.instanceId,
                                         ![T].ipAddress = last'.ipAddress]
                   /\ everProvisioned'[T]
              ELSE Rejected
           /\ (_exists(T) /\ vms[T].status = PROVISIONING
                  /\ (now >= vms[T].expiresAt \/ last'.instanceId = ""
                         \/ last'.ipAddress = ""))
                 => /\ Rejected
                    /\ vms'[T].status = PROVISIONING
                    /\ vms'[T].instanceId = ""
                    /\ vms'[T].ipAddress = ""]_vars

\* C31: updateIPAddress sent by the provisioner changes the ipAddress of
\* the token it names and nothing else: status, instanceId, expiresAt, the
\* owner and every other record stay.  It is rejected, with no change of
\* state, for a token that was terminated or never minted and for an empty
\* address.
C31_UpdateIPAddress ==
    [][(Sent("updateIPAddress") /\ T \in TokenIds)
        => /\ IF Ok
              THEN /\ last'.sender = Provisioner
                   /\ _exists(T)
                   /\ last'.ipAddress # ""
                   /\ vms' = [vms EXCEPT ![T].ipAddress = last'.ipAddress]
                   /\ UNCHANGED <<paused, tokenIdCounter, owners, everProvisioned,
                                  balance, allowance>>
              ELSE Rejected
           /\ (~_exists(T) \/ last'.ipAddress = "") => Rejected
           /\ (last'.sender = Provisioner /\ _exists(T) /\ last'.ipAddress # "")
                 => Ok]_vars

\* the provisioner gave an active VM a new address: the instanceId of the
\* write-back is still there
C31_Witness ==
    /\ last.fn = "updateIPAddress"
    /\ last.err = ""
    /\ vms[last.tokenId].status = ACTIVE
    /\ vms[last.tokenId].instanceId = "i-a"
    /\ vms[last.tokenId].ipAddress = "10.0.0.3"
    /\ emitted[1].oldIP = "10.0.0.1"

\* C32: destroyVM reports success only when the instance was released.  A
\* call that returns success: true has deleted the instance of the given
\* instanceId at the provider, for every provider.
C32_DestroyReleases ==
    [][(destroyReturn' # destroyReturn /\ destroyReturn'.success)
        => /\ \E i \in cloud : i.id = destroyReturn'.instanceId
           /\ \A i \in cloud' : i.id # destroyReturn'.instanceId]_vars

\* C33: record and ownership stay in step under re-entrant callbacks.  In
\* every state of the ledger a token has a non-empty record exactly when it
\* has an owner, and among the events of a transaction no event of a token
\* comes before its VMPurchased event.
C33_RecordFollowsOwner ==
    /\ \A t \in TokenIds : (vms[t] # EmptyVM) <=> _exists(t)
    /\ \A i, j \in 1 .. Len(emitted) :
          (i < j /\ emitted[j].event = "VMPurchased")
              => emitted[i].tokenId # emitted[j].tokenId

\* the instance ids createVM and RunInstances can give
InstanceIds ==
    {GcpName(t) : t \in TokenIds} \cup {AwsInstanceId(n) : n \in 1 .. (MaxHandlers + 1)}

\* the instance exists at the provider
Running(id) == \E i \in cloud : i.id = id

\* a setVMProvisioned with the id of the instance has succeeded for its token
WrittenBack(id) ==
    \E i \in cloud : /\ i.id = id
                      /\ everProvisioned[i.tokenId]
                      /\ vms[i.tokenId].instanceId = id

\* C34: no leaked instance.  Every instance the listener creates for a token
\* is in the end written to the ledger by a successful setVMProvisioned for
\* that token, or destroyed; also when the polling timed out, when the
\* write-back was rejected and when the token was terminated meanwhile.
C34_NoLeakedInstance ==
    \A id \in InstanceIds : Running(id) ~> (~Running(id) \/ WrittenBack(id))

RECURSIVE TotalOf(_, _)
\* the sum of the balances of a set of holders
TotalOf(bal, holders) ==
    IF holders = {} THEN 0
    ELSE LET a == CHOOSE x \in holders : TRUE
         IN  bal[a] + TotalOf(bal, holders \ {a})

RECURSIVE CostOf(_)
\* the sum of the cost fields of the VMPurchased and VMRenewed events
CostOf(events) ==
    IF events = <<>> THEN 0
    ELSE (IF Head(events).event \in {"VMPurchased", "VMRenewed"}
          THEN Head(events).cost ELSE 0) + CostOf(Tail(events))

\* C36: payment conservation.  In every step what the buyers are debited is
\* what the treasury is credited and is the sum of the cost fields of the
\* VMPurchased and VMRenewed events of the step; a purchaseVM or renewVM
\* that succeeds debits its sender the monthly price of the tier times the
\* months, once, and no other step moves a balance.  So the totals agree
\* over every sequence of operations.
C36_PaymentConservation ==
    [][LET paid == balance'[Treasury] - balance[Treasury]
           sender == last'.sender
       IN  /\ TotalOf(balance, Callers) - TotalOf(balance', Callers) = paid
           /\ paid = CostOf(emitted')
           /\ IF (Sent("purchaseVM") \/ Sent("renewVM")) /\ Ok
              THEN /\ paid = last'.months
                               * (IF Sent("purchaseVM") THEN ListPrice(last'.tier)
                                  ELSE ListPrice(vms[T].tier))
                   /\ balance' = [balance EXCEPT ![sender] = @ - paid,
                                                 ![Treasury] = @ + paid]
              ELSE balance' = balance]_vars

\* a purchase for one month and a renewal for one month of tier MICRO have
\* been paid: the treasury holds the sum of the two costs
C36_Witness ==
    /\ last.fn = "renewVM"
    /\ last.err = ""
    /\ CostOf(emitted) = TIER_MICRO_PRICE
    /\ balance[Treasury] = 2 * TIER_MICRO_PRICE
    /\ TotalOf(balance, Callers) = SmallFunds + BotFunds + BotFunds - 2 * TIER_MICRO_PRICE

\* C37: in every state of the ledger a VM that is ACTIVE or SUSPENDED has
\* everProvisioned set, a non-empty instanceId, a non-empty ipAddress and
\* provisionedAt > 0.  everProvisioned is sticky: no step resets it,
\* terminateVM included, and it is set only by a setVMProvisioned for the
\* token that succeeds.
C37_ProvisionedFields ==
    /\ [](\A t \in TokenIds :
            vms[t].status \in {ACTIVE, SUSPENDED}
                => /\ everProvisioned[t]
                   /\ vms[t].instanceId # ""
                   /\ vms[t].ipAddress # ""
                   /\ vms[t].provisionedAt > 0)
    /\ [][\A t \in TokenIds :
            /\ everProvisioned[t] => everProvisioned'[t]
            /\ (everProvisioned'[t] /\ ~everProvisioned[t])
                  => Sent("setVMProvisioned") /\ Ok /\ T = t]_vars

\* a VM that was provisioned, suspended and given a new address was
\* terminated: its record is gone and everProvisioned is still set
C37_Witness ==
    /\ last.fn = "terminateVM"
    /\ last.err = ""
    /\ Gone(last.tokenId)
    /\ vms[last.tokenId] = EmptyVM
    /\ everProvisioned[last.tokenId]

====
